---- MODULE Spec2Model ----
(***************************************************************************)
(* A model of avocado.utils.ssh: the Session class that keeps one SSH      *)
(* master connection per (user, host, port) and routes commands through    *)
(* its control socket.                                                     *)
(*                                                                         *)
(* connect() is modelled step by step (probe, askpass file, Popen, wait,   *)
(* re-probe), because the control socket is shared with the outside world  *)
(* and can change between two steps; cmd() and quit() run one subprocess   *)
(* each and are one step.                                                  *)
(***************************************************************************)
EXTENDS Integers, FiniteSets, Sequences, TLC

\* ------------------------------------------------------------------ bounds

\* How many times in all a connect() may get as far as spawning a master
\* process (each such round has its own process handle and askpass path).
MaxAttempts == 2

\* ------------------------------------------------------- program constants

\* Python's None, for the optional strings.
None == "None"

\* self._connection = None: no process handle.  Handles are 1, 2, ...
NoConnection == 0

\* The exit status that process.CmdError carries when ssh itself failed.
SSH_ERROR_STATUS == 255

\* The mode of a file created with open() under the usual umask.
OPEN_MODE == "0644"

\* stat.S_IRUSR | stat.S_IXUSR, and the mode mkstemp creates a file with.
S_IRUSR_IXUSR == "0500"
MKSTEMP_MODE == "0600"

\* The permission bits of a mode.
Permissions(mode) ==
    CASE mode = "0500" -> {"S_IRUSR", "S_IXUSR"}
      [] mode = "0600" -> {"S_IRUSR", "S_IWUSR"}
      [] mode = "0644" -> {"S_IRUSR", "S_IWUSR", "S_IRGRP", "S_IROTH"}

\* ------------------------------------------------------------ input sets

Sessions == {"s1", "s2"}
Hosts == {"hostA", "hostB"}
Users == {"root"}
Ports == {None}
Keys == {None}
Passwords == {None, "secret"}
\* The values a construction may give, for the command lines.
AnyUser == {None, "root"}
AnyPort == {None, "2222"}
AnyKey == {None, "/tmp/id_rsa"}
Commands == {"ls"}
\* Exit statuses of a remote command: success, failure, ssh's own failure.
ExitStatuses == {0, 1, SSH_ERROR_STATUS}
\* The shell's exit status for a command line whose program does not exist.
COMMAND_NOT_FOUND == 127
StdoutTexts == {"listing"}
StderrTexts == {"No such file"}

VARIABLES
    SSH_CLIENT_BINARY,  \* module attribute: the path of ssh, or None
    host, port, user, key, password,   \* the attributes __init__ sets
    _connection,        \* self._connection: NoConnection or a process handle
    masters,            \* control path -> master processes that went to the
                        \* background behind it and have not ended
    sockets,            \* the control sockets that are alive (ControlPath values)
    askpass_files,      \* the askpass files on disk: [path, mode, content]
    pc,                 \* where each session's current call stands
    attempts,           \* mkstemp/Popen rounds started so far, by all sessions
    round,              \* per session: the round its connect() is in
    call,               \* per session: what its current call, or the call
                        \* that returned last, did
    cmd_outcome,        \* what the cmd() call that returned last gave its caller
    command_line,       \* the command line of the subprocess started last in
                        \* the call that is running or returned last
    history,            \* per session: "never_connected", "connected" (a connect()
                        \* returned True, no quit() since) or "quit"
    scope,              \* per session: where a `with Session(...)` block stands
    enter_connects,     \* connect() calls made by __enter__ for the current block
    exit_quits          \* quit() calls made by __exit__ for the current block

vars == <<SSH_CLIENT_BINARY, host, port, user, key, password, _connection,
          sockets, askpass_files, pc, attempts, round, call, cmd_outcome,
          command_line, masters, history, scope, enter_connects, exit_quits>>

identity == <<SSH_CLIENT_BINARY, host, port, user, key, password>>

\* ----------------------------------------------------------- pure helpers

\* A control path that leaves the user out.
ControlPath_without_user(s) == <<host[s], port[s]>>

\* ('ControlPath', '~/.ssh/avocado-master-%r@%h:%p'): one socket per
\* (user, host, port).
ControlPath(s) == <<user[s], host[s], port[s]>>

\* A command line is the sequence of its arguments: a word, a flag with
\* its value ("-l root"), or an option ("-o 'Name=Value'").
Word(w) == [flag |-> "", name |-> "", value |-> w]
Flag(f, v) == [flag |-> f, name |-> "", value |-> v]
DashO(n, v) == [flag |-> "-o", name |-> n, value |-> v]

\* Python's truth value of an optional string.
Truthy(x) == x # None /\ x # ""

DEFAULT_OPTIONS ==
    << <<"StrictHostKeyChecking", "no">>,
       <<"UpdateHostKeys", "no">>,
       <<"ControlPath", "~/.ssh/avocado-master-%r@%h:%p">> >>

MASTER_OPTIONS ==
    << <<"ControlMaster", "yes">>, <<"ControlPersist", "yes">> >>

\* _dash_o_opts_to_str(opts): "-o 'Key=Val'" for each pair.
_dash_o_opts_to_str(opts) ==
    [i \in 1..Len(opts) |-> DashO(opts[i][1], opts[i][2])]

\* _ssh_cmd(dash_o_opts, opts, command), lines 95-105.
_ssh_cmd(s, dash_o_opts, opts, command) ==
    LET options == _dash_o_opts_to_str(dash_o_opts)
        login == IF user[s] # None
                 THEN <<Flag("-l", user[s])>> \o
                      (IF key[s] # None THEN <<Flag("-i", key[s])>>
                       ELSE <<>>)
                 ELSE <<>>
        dash_p == IF port[s] # None THEN <<Flag("-p", port[s])>> ELSE <<>>
    IN  <<Word(SSH_CLIENT_BINARY)>> \o options \o login \o dash_p \o opts
            \o <<Word(host[s]), Word(command)>>

\* _master_connection() with PubkeyAuthentication following the password.
_master_connection_pubkey_by_password(s) ==
    LET options ==
            DEFAULT_OPTIONS \o MASTER_OPTIONS
            \o << <<"PubkeyAuthentication",
                    IF Truthy(password[s]) THEN "yes" ELSE "no">> >>
            \o (IF password[s] = None
                THEN << <<"PasswordAuthentication", "no">> >>
                ELSE << <<"PasswordAuthentication", "yes">>,
                        <<"NumberOfPasswordPrompts", "1">> >>)
    IN  _ssh_cmd(s, options, <<Word("-n")>>, "")

\* _master_connection(), lines 107-115.
_master_connection(s) ==
    LET options ==
            DEFAULT_OPTIONS \o MASTER_OPTIONS
            \o << <<"PubkeyAuthentication",
                    IF Truthy(key[s]) THEN "yes" ELSE "no">> >>
            \o (IF password[s] = None
                THEN << <<"PasswordAuthentication", "no">> >>
                ELSE << <<"PasswordAuthentication", "yes">>,
                        <<"NumberOfPasswordPrompts", "1">> >>)
    IN  _ssh_cmd(s, options, <<Word("-n")>>, "")

\* _master_command(command), line 131: the command line it runs.
_master_command_line(s, command) ==
    _ssh_cmd(s, DEFAULT_OPTIONS, <<Word("-O"), Word(command)>>, "")

\* get_raw_ssh_command(command), line 193.
get_raw_ssh_command(s, command) ==
    _ssh_cmd(s, DEFAULT_OPTIONS, <<Word("-q")>>, command)

\* A subprocess of session s is started with this command line.
Started(s, kind, argv) == [session |-> s, kind |-> kind, argv |-> argv]

NoCommandLine == [session |-> None, kind |-> "none", argv |-> <<>>]

\* The record of a call that has just begun.
NewCall(name, s) ==
    [op |-> name, ret |-> "pending", probes |-> 0, runs |-> 0, spawned |-> 0,
     created |-> 0, last_probe |-> "none", returncode |-> -1,
     conn_before |-> _connection[s],
     alive_at_start |-> ControlPath(s) \in sockets,
     history_at_start |-> history[s],
     lost |-> FALSE]

NoCall == [op |-> "none", ret |-> "none", probes |-> 0, runs |-> 0,
           spawned |-> 0,
           created |-> 0, last_probe |-> "none", returncode |-> -1,
           conn_before |-> NoConnection, alive_at_start |-> FALSE,
           history_at_start |-> "never_connected", lost |-> FALSE]

\* A call of session s begins: its record starts, and the records of calls
\* that returned earlier are dropped.
Begin(s, record) ==
    [t \in Sessions |->
        IF t = s THEN record ELSE IF pc[t] = "idle" THEN NoCall ELSE call[t]]

NoCmdOutcome == [session |-> None, command |-> None, ignore_status |-> TRUE,
                 kind |-> "none", exit_status |-> 0,
                 stdout |-> "", stderr |-> "",
                 exc_stdout |-> None, exc_stderr |-> None,
                 additional_text |-> None]

Init ==
    /\ SSH_CLIENT_BINARY \in {"/usr/bin/ssh", None}
    /\ host \in {h \in [Sessions -> Hosts] : h["s1"] = "hostA"}
    /\ port \in [Sessions -> Ports]
    /\ user \in [Sessions -> Users]
    /\ key \in [Sessions -> Keys]
    /\ password \in [Sessions -> Passwords]
    /\ _connection = [s \in Sessions |-> NoConnection]
    /\ sockets = {}
    /\ masters = [cp \in {ControlPath(s) : s \in Sessions} |-> 0]
    /\ askpass_files = {}
    /\ pc = [s \in Sessions |-> "idle"]
    /\ attempts = 0
    /\ round = [s \in Sessions |-> 0]
    /\ call = [s \in Sessions |-> NoCall]
    /\ cmd_outcome = NoCmdOutcome
    /\ command_line = NoCommandLine
    /\ history = [s \in Sessions |-> "never_connected"]
    /\ scope = [s \in Sessions |-> "out"]
    /\ enter_connects = [s \in Sessions |-> 0]
    /\ exit_quits = [s \in Sessions |-> 0]

\* ------------------------------------------------- the outside world

\* The exit status of `ssh -O check|exit` on this session's control path:
\* zero exactly when the master behind the socket answers.  A command line
\* whose program is the text "None" finds no program to run.
ControlStatus(s) ==
    IF SSH_CLIENT_BINARY = None THEN COMMAND_NOT_FOUND
    ELSE IF ControlPath(s) \in sockets THEN 0 ELSE SSH_ERROR_STATUS

\* process.run(cmd, ignore_status): the result, and whether CmdError is
\* raised instead of returning it.
process_run(exit_status, stdout, stderr, ignore_status) ==
    [raised |-> (~ignore_status /\ exit_status # 0),
     result |-> [exit_status |-> exit_status, stdout |-> stdout,
                 stderr |-> stderr]]

\* Sessions in the middle of a call on control path `cp` see it go away.
MarkLost(c, cp, except) ==
    [t \in Sessions |->
        IF t # except /\ pc[t] # "idle" /\ ControlPath(t) = cp
        THEN [c[t] EXCEPT !.lost = TRUE] ELSE c[t]]

\* The master behind a control socket dies, or its socket is removed.
SocketLost ==
    \E cp \in sockets :
        /\ sockets' = sockets \ {cp}
        /\ call' = MarkLost(call, cp, None)
        /\ masters' = [masters EXCEPT ![cp] = 0]
        /\ UNCHANGED <<identity, command_line, _connection, askpass_files, pc, attempts, round,
                       cmd_outcome, history, scope, enter_connects,
                       exit_quits>>

\* --------------------------------------------------- scoped use (with)

\* scope[s] is "out" outside any block, "entering" while __enter__ runs,
\* "body" while the body runs, and says how the last block ended until the
\* session's next call: "failed" (__enter__ raised, the body never ran),
\* "left" (the body ended) or "raised" (an exception left the body).
Outside == {"out", "failed", "left", "raised"}

\* A call may be made by code outside any block or by the body of a block.
CanCall(s) == pc[s] = "idle" /\ scope[s] \in Outside \cup {"body"}

\* A call made directly: the note of how the last block ended is dropped.
Called(s) ==
    /\ scope' = [scope EXCEPT ![s] = IF @ = "body" THEN "body" ELSE "out"]
    /\ enter_connects' = [enter_connects EXCEPT ![s] =
                             IF scope[s] = "body" THEN @ ELSE 0]
    /\ exit_quits' = [exit_quits EXCEPT ![s] =
                         IF scope[s] = "body" THEN @ ELSE 0]

\* An exception leaving connect(): out of __enter__, the block is never
\* entered; in a body, the body may catch it or let it go (see __exit__).
ScopeAfterRaise(s) ==
    IF scope[s] = "entering" THEN [scope EXCEPT ![s] = "failed"] ELSE scope

\* connect() returning: __enter__ returns self and the body starts.
ScopeAfterReturn(s) ==
    IF scope[s] = "entering" THEN [scope EXCEPT ![s] = "body"] ELSE scope

\* --------------------------------------------------------- Session

\* _master_command() returning the exit status itself, which Python reads
\* as true exactly when the command failed.
_master_command_returns_status(s) ==
    LET run == process_run(ControlStatus(s), "", "", TRUE)
    IN  run.result.exit_status # 0

\* _master_command(command): process.run(..., ignore_status=True), then
\* result.exit_status == 0.
_master_command(s) ==
    LET run == process_run(ControlStatus(s), "", "", TRUE)
    IN  run.result.exit_status = 0

\* _check() that never finds the control socket.
_check_blind(s) == FALSE

\* _check(): _master_command('check').
_check(s) == _master_command(s)

\* connect() without its test for a missing client binary.
connect_binary_unchecked == FALSE

\* connect(), line 149: if SSH_CLIENT_BINARY is None.
connect_binary_missing == SSH_CLIENT_BINARY = None

\* connect() starting a master whatever the first probe says.
needs_master_always(check_result) == TRUE

\* connect(), line 152: if not self._check().
needs_master(check_result) == ~check_result

\* connect() without its test of the master's return code.
master_failed_ignored(returncode) == FALSE

\* connect(), line 174: if not master.returncode == 0.
master_failed(returncode) == ~(returncode = 0)

\* connect() ending with `return True` once the master has exited cleanly.
connect_result_unprobed(s) == TRUE

\* connect(), line 177: return self._check().
connect_result(s) == _check(s)

\* connect(), lines 149-150, up to the first probe.
connect_call(s) ==
    /\ pc[s] = "idle"
    /\ attempts < MaxAttempts
    /\ IF connect_binary_missing
       THEN /\ call' = Begin(s, [NewCall("connect", s) EXCEPT
                                     !.ret = "False"])
            /\ pc' = pc
       ELSE /\ call' = Begin(s, NewCall("connect", s))
            /\ pc' = [pc EXCEPT ![s] = "check"]
    /\ cmd_outcome' = NoCmdOutcome
    /\ command_line' = NoCommandLine
    /\ UNCHANGED <<identity, masters, _connection, sockets, askpass_files, attempts,
                   round, history>>

\* connect() called directly.
connect(s) ==
    /\ CanCall(s)
    /\ connect_call(s)
    /\ Called(s)

\* connect() that starts a master only while self._connection is None.
connect_check_trusting_connection(s) ==
    /\ pc[s] = "check"
    /\ LET alive == _check(s)
           probed == [call[s] EXCEPT !.probes = @ + 1, !.runs = @ + 1,
                          !.last_probe = IF alive THEN "alive" ELSE "dead"]
       IN  /\ call' = [call EXCEPT ![s] = probed]
           /\ command_line' =
                  Started(s, "control", _master_command_line(s, "check"))
           /\ IF needs_master(alive) /\ _connection[s] = NoConnection
              THEN /\ attempts' = attempts + 1
                   /\ round' = [round EXCEPT ![s] = attempts + 1]
                   /\ pc' = [pc EXCEPT ![s] =
                               IF password[s] # None THEN "mkstemp"
                               ELSE "popen"]
              ELSE /\ UNCHANGED <<attempts, round>>
                   /\ pc' = [pc EXCEPT ![s] = "recheck"]
    /\ UNCHANGED <<identity, masters, _connection, sockets, askpass_files,
                   cmd_outcome, history, scope, enter_connects,
                   exit_quits>>

\* connect(), line 152: the first probe, and line 153 when it fails.
connect_check(s) ==
    /\ pc[s] = "check"
    /\ LET alive == _check(s)
           probed == [call[s] EXCEPT !.probes = @ + 1, !.runs = @ + 1,
                          !.last_probe = IF alive THEN "alive" ELSE "dead"]
       IN  /\ call' = [call EXCEPT ![s] = probed]
           /\ command_line' =
                  Started(s, "control", _master_command_line(s, "check"))
           /\ IF needs_master(alive)
              THEN /\ attempts' = attempts + 1
                   /\ round' = [round EXCEPT ![s] = attempts + 1]
                   /\ pc' = [pc EXCEPT ![s] =
                               IF password[s] # None THEN "mkstemp"
                               ELSE "popen"]
              ELSE /\ UNCHANGED <<attempts, round>>
                   /\ pc' = [pc EXCEPT ![s] = "recheck"]
    /\ UNCHANGED <<identity, masters, _connection, sockets, askpass_files,
                   cmd_outcome, history, scope, enter_connects,
                   exit_quits>>

\* The path mkstemp gives this session's current attempt.
AskpassPath(s) == round[s]

AskpassFile(s) == CHOOSE f \in askpass_files : f.path = AskpassPath(s)

\* _create_ssh_askpass(), line 124: fd, path = tempfile.mkstemp().
askpass_mkstemp(s) ==
    /\ pc[s] = "mkstemp"
    /\ askpass_files' = askpass_files \cup
           {[path |-> AskpassPath(s), mode |-> MKSTEMP_MODE, content |-> ""]}
    /\ call' = [call EXCEPT ![s].created = @ + 1]
    /\ pc' = [pc EXCEPT ![s] = "write"]
    /\ UNCHANGED <<identity, masters, command_line, _connection, sockets, attempts, round, cmd_outcome,
                   history, scope, enter_connects, exit_quits>>

\* _create_ssh_askpass(), line 125: os.write(fd, script.encode()).
askpass_write(s) ==
    /\ pc[s] = "write"
    /\ askpass_files' = (askpass_files \ {AskpassFile(s)}) \cup
           {[AskpassFile(s) EXCEPT !.content = password[s]]}
    /\ pc' = [pc EXCEPT ![s] = "fchmod"]
    /\ UNCHANGED <<identity, masters, command_line, _connection, sockets, attempts, round, call,
                   cmd_outcome, history, scope, enter_connects,
                   exit_quits>>

\* _create_ssh_askpass(), lines 126-128: os.fchmod, os.close, return path.
askpass_fchmod(s) ==
    /\ pc[s] = "fchmod"
    /\ askpass_files' = (askpass_files \ {AskpassFile(s)}) \cup
           {[AskpassFile(s) EXCEPT !.mode = S_IRUSR_IXUSR]}
    /\ pc' = [pc EXCEPT ![s] = "popen"]
    /\ UNCHANGED <<identity, masters, command_line, _connection, sockets, attempts, round, call,
                   cmd_outcome, history, scope, enter_connects,
                   exit_quits>>

\* connect(), lines 159-169: subprocess.Popen(cmd, ...) starts the master.
connect_popen(s) ==
    /\ pc[s] = "popen"
    /\ call' = [call EXCEPT ![s].spawned = @ + 1]
    /\ command_line' = Started(s, "master", _master_connection(s))
    /\ pc' = [pc EXCEPT ![s] = "wait"]
    /\ UNCHANGED <<identity, masters, _connection, sockets, askpass_files, attempts, round,
                   cmd_outcome, history, scope, enter_connects,
                   exit_quits>>

\* connect(), lines 159-169: subprocess.Popen raises OSError (the program
\* is gone, or no process can be created); nothing in connect() catches it.
connect_popen_raises(s) ==
    /\ pc[s] = "popen"
    /\ call' = [call EXCEPT ![s].ret = "OSError"]
    /\ command_line' = Started(s, "master", _master_connection(s))
    /\ pc' = [pc EXCEPT ![s] = "idle"]
    /\ scope' = ScopeAfterRaise(s)
    /\ UNCHANGED <<identity, masters, _connection, sockets, askpass_files, attempts, round,
                   cmd_outcome, history, enter_connects, exit_quits>>

\* connect() trying again from the probe when the master fails.
connect_wait_retrying(s) ==
    /\ pc[s] = "wait"
    /\ \E returncode \in {0, SSH_ERROR_STATUS} :
        /\ sockets' = IF returncode = 0
                      THEN sockets \cup {ControlPath(s)} ELSE sockets
        /\ masters' = IF returncode = 0
                      THEN [masters EXCEPT ![ControlPath(s)] = @ + 1]
                      ELSE masters
        /\ askpass_files' = IF password[s] # None
                            THEN askpass_files \ {AskpassFile(s)}
                            ELSE askpass_files
        /\ call' = [call EXCEPT ![s].returncode = returncode]
        /\ IF master_failed(returncode)
           THEN /\ _connection' = _connection
                /\ pc' = [pc EXCEPT ![s] = "check"]
           ELSE /\ _connection' = [_connection EXCEPT ![s] = round[s]]
                /\ pc' = [pc EXCEPT ![s] = "recheck"]
    /\ UNCHANGED <<identity, command_line, attempts, round, cmd_outcome, history,
                   scope, enter_connects, exit_quits>>

\* connect(), lines 171-176: master.wait(), os.unlink of the askpass file,
\* the return code test, self._connection = master.  A master that exits
\* with status zero has put itself in the background behind the socket.
connect_wait(s) ==
    /\ pc[s] = "wait"
    /\ \E returncode \in {0, SSH_ERROR_STATUS} :
        /\ sockets' = IF returncode = 0
                      THEN sockets \cup {ControlPath(s)} ELSE sockets
        /\ masters' = IF returncode = 0
                      THEN [masters EXCEPT ![ControlPath(s)] = @ + 1]
                      ELSE masters
        /\ askpass_files' = IF password[s] # None
                            THEN askpass_files \ {AskpassFile(s)}
                            ELSE askpass_files
        /\ IF master_failed(returncode)
           THEN /\ call' = [call EXCEPT ![s].returncode = returncode,
                                        ![s].ret = "False"]
                /\ _connection' = _connection
                /\ pc' = [pc EXCEPT ![s] = "idle"]
                /\ scope' = ScopeAfterReturn(s)
           ELSE /\ call' = [call EXCEPT ![s].returncode = returncode]
                /\ _connection' = [_connection EXCEPT ![s] = round[s]]
                /\ pc' = [pc EXCEPT ![s] = "recheck"]
                /\ scope' = scope
    /\ UNCHANGED <<identity, command_line, attempts, round, cmd_outcome, history,
                   enter_connects, exit_quits>>

\* connect(), line 177: return self._check().
connect_recheck(s) ==
    /\ pc[s] = "recheck"
    /\ LET alive == _check(s)
           result == connect_result(s)
       IN  /\ call' = [call EXCEPT ![s].probes = @ + 1,
                          ![s].runs = @ + 1,
                          ![s].last_probe = IF alive THEN "alive" ELSE "dead",
                          ![s].ret = IF result THEN "True" ELSE "False"]
           /\ history' = [history EXCEPT ![s] =
                              IF result THEN "connected" ELSE @]
    /\ command_line' = Started(s, "control", _master_command_line(s, "check"))
    /\ pc' = [pc EXCEPT ![s] = "idle"]
    /\ scope' = ScopeAfterReturn(s)
    /\ UNCHANGED <<identity, masters, _connection, sockets, askpass_files, attempts,
                   round, cmd_outcome, enter_connects, exit_quits>>

\* cmd() without the test for status 255: every CmdError is passed on.
cmd_classify_no_session_error(s, command, ignore_status, run) ==
    LET base == [session |-> s, command |-> command,
                 ignore_status |-> ignore_status,
                 kind |-> "CmdResult",
                 exit_status |-> run.result.exit_status,
                 stdout |-> run.result.stdout,
                 stderr |-> run.result.stderr,
                 exc_stdout |-> None, exc_stderr |-> None,
                 additional_text |-> None]
    IN  IF ~run.raised THEN base
        ELSE [base EXCEPT !.kind = "CmdError",
                          !.additional_text = command,
                          !.exc_stderr = run.result.stderr,
                          !.exc_stdout = run.result.stdout]

\* cmd() with the two captured streams assigned crosswise.
cmd_classify_streams_swapped(s, command, ignore_status, run) ==
    LET base == [session |-> s, command |-> command,
                 ignore_status |-> ignore_status,
                 kind |-> "CmdResult",
                 exit_status |-> run.result.exit_status,
                 stdout |-> run.result.stdout,
                 stderr |-> run.result.stderr,
                 exc_stdout |-> None, exc_stderr |-> None,
                 additional_text |-> None]
    IN  IF ~run.raised THEN base
        ELSE IF run.result.exit_status = SSH_ERROR_STATUS
        THEN [base EXCEPT !.kind = "SessionError"]
        ELSE [base EXCEPT !.kind = "CmdError",
                          !.additional_text = command,
                          !.exc_stderr = run.result.stdout,
                          !.exc_stdout = run.result.stderr]

\* cmd(), lines 211-221: what the caller gets from the runner's outcome.
cmd_classify(s, command, ignore_status, run) ==
    LET base == [session |-> s, command |-> command,
                 ignore_status |-> ignore_status,
                 kind |-> "CmdResult",
                 exit_status |-> run.result.exit_status,
                 stdout |-> run.result.stdout,
                 stderr |-> run.result.stderr,
                 exc_stdout |-> None, exc_stderr |-> None,
                 additional_text |-> None]
    IN  IF ~run.raised THEN base
        ELSE IF run.result.exit_status = SSH_ERROR_STATUS
        THEN [base EXCEPT !.kind = "SessionError"]
        ELSE [base EXCEPT !.kind = "CmdError",
                          !.additional_text = command,
                          !.exc_stderr = run.result.stderr,
                          !.exc_stdout = run.result.stdout]

\* The exit statuses the ssh command line of cmd() can end with.
RemoteStatuses ==
    IF SSH_CLIENT_BINARY = None THEN {COMMAND_NOT_FOUND} ELSE ExitStatuses

\* cmd() that forgets the connection when it raises SessionError.
cmd_dropping_connection(s) ==
    /\ CanCall(s)
    /\ \E command \in Commands, ignore_status \in BOOLEAN,
          exit_status \in RemoteStatuses,
          stdout \in StdoutTexts, stderr \in StderrTexts :
        LET run == process_run(exit_status, stdout, stderr, ignore_status)
            outcome == cmd_classify(s, command, ignore_status, run)
        IN  /\ cmd_outcome' = outcome
            /\ call' = Begin(s, [NewCall("cmd", s) EXCEPT
                                     !.ret = outcome.kind, !.runs = 1])
            /\ command_line' =
                   Started(s, "cmd", get_raw_ssh_command(s, command))
            /\ _connection' = IF outcome.kind = "SessionError"
                              THEN [_connection EXCEPT ![s] = NoConnection]
                              ELSE _connection
    /\ Called(s)
    /\ UNCHANGED <<identity, masters, sockets, askpass_files, pc,
                   attempts, round, history>>

\* cmd(command, ignore_status).
cmd(s) ==
    /\ CanCall(s)
    /\ \E command \in Commands, ignore_status \in BOOLEAN,
          exit_status \in RemoteStatuses,
          stdout \in StdoutTexts, stderr \in StderrTexts :
        LET run == process_run(exit_status, stdout, stderr, ignore_status)
            outcome == cmd_classify(s, command, ignore_status, run)
        IN  /\ cmd_outcome' = outcome
            /\ call' = Begin(s, [NewCall("cmd", s) EXCEPT
                                     !.ret = outcome.kind, !.runs = 1])
            /\ command_line' =
                   Started(s, "cmd", get_raw_ssh_command(s, command))
    /\ Called(s)
    /\ UNCHANGED <<identity, masters, _connection, sockets, askpass_files, pc,
                   attempts, round, history>>

\* quit() that also sets self._connection back to None.
quit_call_resets_connection(s) ==
    /\ pc[s] = "idle"
    /\ LET closed == _master_command(s)
           done == [NewCall("quit", s) EXCEPT !.runs = 1,
                       !.ret = IF closed THEN "True" ELSE "False"]
       IN  /\ sockets' = IF closed THEN sockets \ {ControlPath(s)}
                         ELSE sockets
           /\ masters' = IF closed
                         THEN [masters EXCEPT ![ControlPath(s)] = 0]
                         ELSE masters
           /\ call' = IF closed
                      THEN MarkLost(Begin(s, done), ControlPath(s), s)
                      ELSE Begin(s, done)
    /\ cmd_outcome' = NoCmdOutcome
    /\ command_line' = Started(s, "control", _master_command_line(s, "exit"))
    /\ history' = [history EXCEPT ![s] =
                      IF @ = "never_connected" THEN @ ELSE "quit"]
    /\ _connection' = [_connection EXCEPT ![s] = NoConnection]
    /\ UNCHANGED <<identity, askpass_files, pc, attempts, round>>

\* quit(), line 230: return self._master_command('exit').  The master that
\* answers the exit command goes away with its socket.
quit_call(s) ==
    /\ pc[s] = "idle"
    /\ LET closed == _master_command(s)
           done == [NewCall("quit", s) EXCEPT !.runs = 1,
                       !.ret = IF closed THEN "True" ELSE "False"]
       IN  /\ sockets' = IF closed THEN sockets \ {ControlPath(s)}
                         ELSE sockets
           /\ masters' = IF closed
                         THEN [masters EXCEPT ![ControlPath(s)] = 0]
                         ELSE masters
           /\ call' = IF closed
                      THEN MarkLost(Begin(s, done), ControlPath(s), s)
                      ELSE Begin(s, done)
    /\ cmd_outcome' = NoCmdOutcome
    /\ command_line' = Started(s, "control", _master_command_line(s, "exit"))
    /\ history' = [history EXCEPT ![s] =
                      IF @ = "never_connected" THEN @ ELSE "quit"]
    /\ UNCHANGED <<identity, _connection, askpass_files, pc, attempts, round>>

\* quit() called directly.
quit(s) ==
    /\ CanCall(s)
    /\ quit_call(s)
    /\ Called(s)

\* __enter__(), lines 82-84: self.connect(); return self.
__enter__(s) ==
    /\ scope[s] \in Outside
    /\ connect_call(s)
    /\ scope' = [scope EXCEPT ![s] =
                   IF connect_binary_missing THEN "body" ELSE "entering"]
    /\ enter_connects' = [enter_connects EXCEPT ![s] = 1]
    /\ exit_quits' = [exit_quits EXCEPT ![s] = 0]

\* __exit__() that leaves the block without calling quit().
__exit___without_quit(s, raising) ==
    /\ scope[s] = "body"
    /\ pc[s] = "idle"
    /\ scope' = [scope EXCEPT ![s] = IF raising THEN "raised" ELSE "left"]
    /\ UNCHANGED <<identity, masters, command_line, _connection, sockets, askpass_files, pc,
                   attempts, round, call, cmd_outcome, history,
                   enter_connects, exit_quits>>

\* __exit__(), lines 86-87: self.quit().  The `with` statement runs it when
\* the body ends and when an exception leaves the body (raising = TRUE); it
\* returns None, so the exception goes on after it.
__exit__(s, raising) ==
    /\ scope[s] = "body"
    /\ quit_call(s)
    /\ scope' = [scope EXCEPT ![s] = IF raising THEN "raised" ELSE "left"]
    /\ exit_quits' = [exit_quits EXCEPT ![s] = @ + 1]
    /\ UNCHANGED enter_connects

\* ------------------------------------------------------ specification

\* Calls are synchronous: a call begins when no other session is inside one.
Turn(s) == \A t \in Sessions \ {s} : pc[t] = "idle"

Connect == \E s \in Sessions : Turn(s) /\ connect(s)
ConnectCheck == \E s \in Sessions : connect_check(s)
AskpassMkstemp == \E s \in Sessions : askpass_mkstemp(s)
AskpassWrite == \E s \in Sessions : askpass_write(s)
AskpassFchmod == \E s \in Sessions : askpass_fchmod(s)
ConnectPopen == \E s \in Sessions : connect_popen(s)
ConnectPopenRaises == \E s \in Sessions : connect_popen_raises(s)
ConnectWait == \E s \in Sessions : connect_wait(s)
ConnectRecheck == \E s \in Sessions : connect_recheck(s)
Cmd == \E s \in Sessions : Turn(s) /\ cmd(s)
Quit == \E s \in Sessions : Turn(s) /\ quit(s)
Enter == \E s \in Sessions : Turn(s) /\ __enter__(s)
Exit == \E s \in Sessions, raising \in BOOLEAN : Turn(s) /\ __exit__(s, raising)

Next ==
    \/ Connect
    \/ ConnectCheck
    \/ AskpassMkstemp
    \/ AskpassWrite
    \/ AskpassFchmod
    \/ ConnectPopen
    \/ ConnectPopenRaises
    \/ ConnectWait
    \/ ConnectRecheck
    \/ Cmd
    \/ Quit
    \/ Enter
    \/ Exit
    \/ SocketLost

Spec == Init /\ [][Next]_vars

\* The same program, the first session constructed with every combination
\* of user, key and port set or unset and no password, and with every
\* combination of key and password set or unset for root on the default
\* port; the second session on the fixed endpoint root@hostA.
InitCommandLines ==
    /\ SSH_CLIENT_BINARY = "/usr/bin/ssh"
    /\ host = [s \in Sessions |-> "hostA"]
    /\ port \in {p \in [Sessions -> AnyPort] : p["s2"] = None}
    /\ user \in {u \in [Sessions -> AnyUser] : u["s2"] = "root"}
    /\ key \in {k \in [Sessions -> AnyKey] : k["s2"] = None}
    /\ password \in {p \in [Sessions -> Passwords] :
                          /\ p["s2"] = None
                          /\ \/ p["s1"] = None
                             \/ user["s1"] = "root" /\ port["s1"] = None}
    /\ _connection = [s \in Sessions |-> NoConnection]
    /\ sockets = {}
    /\ masters = [cp \in {ControlPath(s) : s \in Sessions} |-> 0]
    /\ askpass_files = {}
    /\ pc = [s \in Sessions |-> "idle"]
    /\ attempts = 0
    /\ round = [s \in Sessions |-> 0]
    /\ call = [s \in Sessions |-> NoCall]
    /\ cmd_outcome = NoCmdOutcome
    /\ command_line = NoCommandLine
    /\ history = [s \in Sessions |-> "never_connected"]
    /\ scope = [s \in Sessions |-> "out"]
    /\ enter_connects = [s \in Sessions |-> 0]
    /\ exit_quits = [s \in Sessions |-> 0]

SpecCommandLines == InitCommandLines /\ [][Next]_vars

\* The same program with the first session constructed for root@hostA with
\* a password, and the second for any user, host and port.
InitEndpoints ==
    /\ SSH_CLIENT_BINARY = "/usr/bin/ssh"
    /\ host \in {h \in [Sessions -> Hosts] : h["s1"] = "hostA"}
    /\ port \in {p \in [Sessions -> AnyPort] : p["s1"] = None}
    /\ user \in {u \in [Sessions -> AnyUser] : u["s1"] = "root"}
    /\ key = [s \in Sessions |-> None]
    /\ password = [s \in Sessions |-> IF s = "s1" THEN "secret" ELSE None]
    /\ _connection = [s \in Sessions |-> NoConnection]
    /\ sockets = {}
    /\ masters = [cp \in {ControlPath(s) : s \in Sessions} |-> 0]
    /\ askpass_files = {}
    /\ pc = [s \in Sessions |-> "idle"]
    /\ attempts = 0
    /\ round = [s \in Sessions |-> 0]
    /\ call = [s \in Sessions |-> NoCall]
    /\ cmd_outcome = NoCmdOutcome
    /\ command_line = NoCommandLine
    /\ history = [s \in Sessions |-> "never_connected"]
    /\ scope = [s \in Sessions |-> "out"]
    /\ enter_connects = [s \in Sessions |-> 0]
    /\ exit_quits = [s \in Sessions |-> 0]

SpecEndpoints == InitEndpoints /\ [][Next]_vars

\* Two threads, each with its own instance for root@hostA (the first with
\* a password), calling connect() and quit() with no synchronisation: a
\* call begins whatever the other thread is doing, and the steps of the
\* two calls interleave.
InitConcurrent ==
    /\ SSH_CLIENT_BINARY = "/usr/bin/ssh"
    /\ host = [s \in Sessions |-> "hostA"]
    /\ port = [s \in Sessions |-> None]
    /\ user = [s \in Sessions |-> "root"]
    /\ key = [s \in Sessions |-> None]
    /\ password = [s \in Sessions |-> IF s = "s1" THEN "secret" ELSE None]
    /\ _connection = [s \in Sessions |-> NoConnection]
    /\ sockets = {}
    /\ masters = [cp \in {ControlPath(s) : s \in Sessions} |-> 0]
    /\ askpass_files = {}
    /\ pc = [s \in Sessions |-> "idle"]
    /\ attempts = 0
    /\ round = [s \in Sessions |-> 0]
    /\ call = [s \in Sessions |-> NoCall]
    /\ cmd_outcome = NoCmdOutcome
    /\ command_line = NoCommandLine
    /\ history = [s \in Sessions |-> "never_connected"]
    /\ scope = [s \in Sessions |-> "out"]
    /\ enter_connects = [s \in Sessions |-> 0]
    /\ exit_quits = [s \in Sessions |-> 0]

ConcurrentConnect == \E s \in Sessions : connect(s)
ConcurrentQuit == \E s \in Sessions : quit(s)

NextConcurrent ==
    \/ ConcurrentConnect
    \/ ConnectCheck
    \/ AskpassMkstemp
    \/ AskpassWrite
    \/ AskpassFchmod
    \/ ConnectPopen
    \/ ConnectPopenRaises
    \/ ConnectWait
    \/ ConnectRecheck
    \/ ConcurrentQuit
    \/ SocketLost

SpecConcurrent == InitConcurrent /\ [][NextConcurrent]_vars

\* ------------------------------------------------------------ properties

\* The call of session s named `name` has ended (returned or raised).
Ended(s, name) == call[s].op = name /\ call[s].ret # "pending"

\* C1 (idempotent connect): a connect() of a session whose earlier connect()
\* returned True, made while the control socket is alive and stays alive
\* (no quit(), no socket loss), spawns no master process, creates no
\* askpass file, leaves _connection as it was and returns True.
IdempotentConnect ==
    \A s \in Sessions :
        ( /\ Ended(s, "connect")
          /\ SSH_CLIENT_BINARY # None
          /\ call[s].history_at_start = "connected"
          /\ call[s].alive_at_start
          /\ ~call[s].lost )
        => /\ call[s].spawned = 0
           /\ call[s].created = 0
           /\ _connection[s] = call[s].conn_before
           /\ call[s].ret = "True"

\* A second connect() on a connected session has returned True after two
\* probes.
IdempotentConnectWitness ==
    \E s \in Sessions :
        /\ Ended(s, "connect")
        /\ call[s].history_at_start = "connected"
        /\ call[s].alive_at_start
        /\ ~call[s].lost
        /\ call[s].probes = 2
        /\ call[s].ret = "True"

\* The last cmd() call's ssh invocation ended with this exit status.
CmdEnded(exit_status) ==
    cmd_outcome.kind # "none" /\ cmd_outcome.exit_status = exit_status

\* C2 as stated (255 classification): every cmd() call whose remote
\* invocation ends with exit status 255 raises SessionError, with
\* ignore_status false and with ignore_status true alike.
SessionErrorRegardless ==
    CmdEnded(SSH_ERROR_STATUS) => cmd_outcome.kind = "SessionError"

\* C2, amended: a cmd() call whose remote invocation ends with exit status
\* 255 raises SessionError when ignore_status is false, never an ordinary
\* command error; when ignore_status is true it returns the result object,
\* which carries exit status 255.
SessionErrorUnlessIgnored ==
    CmdEnded(SSH_ERROR_STATUS) =>
        /\ cmd_outcome.kind # "CmdError"
        /\ ~cmd_outcome.ignore_status => cmd_outcome.kind = "SessionError"
        /\ cmd_outcome.ignore_status => cmd_outcome.kind = "CmdResult"

\* A cmd(..., ignore_status=False) has raised SessionError on status 255.
SessionErrorWitness ==
    /\ CmdEnded(SSH_ERROR_STATUS)
    /\ ~cmd_outcome.ignore_status
    /\ cmd_outcome.kind = "SessionError"

\* C3 (non-255 classification): for an exit status other than 0 and 255,
\* cmd() with ignore_status false raises a command error that carries the
\* runner's captured stdout and stderr, and with ignore_status true returns
\* the result object with that exit status; for exit status 0 it returns
\* the result object in both modes.
CommandErrorClassification ==
    /\ \A exit_status \in (ExitStatuses \cup {COMMAND_NOT_FOUND})
                             \ {0, SSH_ERROR_STATUS} :
          CmdEnded(exit_status) =>
              IF cmd_outcome.ignore_status
              THEN cmd_outcome.kind = "CmdResult"
              ELSE /\ cmd_outcome.kind = "CmdError"
                   /\ cmd_outcome.exc_stdout = cmd_outcome.stdout
                   /\ cmd_outcome.exc_stderr = cmd_outcome.stderr
    /\ CmdEnded(0) => cmd_outcome.kind = "CmdResult"

\* A cmd(..., ignore_status=False) has raised a command error on status 1.
CommandErrorWitness ==
    /\ CmdEnded(1)
    /\ ~cmd_outcome.ignore_status
    /\ cmd_outcome.kind = "CmdError"
    /\ cmd_outcome.exc_stdout = "listing"

\* C4 as stated (askpass cleanup): once a connect() call of a session with
\* a password has ended, by returning or by a local error raised while the
\* master process is spawned, no askpass file created by that call exists.
AskpassCleanup ==
    \A s \in Sessions :
        (Ended(s, "connect") /\ password[s] # None /\ call[s].created > 0)
        => ~(\E f \in askpass_files : f.path = round[s])

\* C5 (client binary missing): every connect() call returns False and runs
\* no subprocess: no probe, no master, no askpass file, and _connection
\* stays None.
BinaryMissingConnect ==
    SSH_CLIENT_BINARY = None =>
        /\ askpass_files = {}
        /\ \A s \in Sessions :
              /\ pc[s] = "idle"
              /\ _connection[s] = NoConnection
              /\ call[s].op = "connect" =>
                    /\ call[s].ret = "False"
                    /\ call[s].probes = 0
                    /\ call[s].spawned = 0
                    /\ call[s].created = 0

\* With the client binary missing, a connect() call has returned False.
BinaryMissingWitness ==
    /\ SSH_CLIENT_BINARY = None
    /\ \E s \in Sessions : Ended(s, "connect") /\ call[s].ret = "False"

\* C6 as stated (clean quit without connect): a quit() of a session that
\* has had no successful connect() raises nothing and returns a falsy
\* result, also when another Session instance for the same
\* (user, host, port) holds a live control socket.
QuitWithoutConnectIsFalse ==
    \A s \in Sessions :
        (Ended(s, "quit") /\ call[s].history_at_start = "never_connected")
        => call[s].ret = "False"

\* C6, amended: a quit() of a session that has had no successful connect()
\* raises nothing, and returns a falsy result unless the control socket of
\* its (user, host, port) is alive at that moment, as when another Session
\* instance for the same endpoint holds it: then this quit() closes that
\* socket and returns True.
QuitWithoutConnect ==
    \A s \in Sessions :
        (Ended(s, "quit") /\ call[s].history_at_start = "never_connected")
        => /\ call[s].ret \in {"True", "False"}
           /\ call[s].ret = "True" <=> call[s].alive_at_start
           /\ ControlPath(s) \notin sockets

\* A session that never connected has called quit() and got False while
\* another session, for another endpoint, is connected.
QuitWithoutConnectWitness ==
    \E s \in Sessions :
        /\ Ended(s, "quit")
        /\ call[s].history_at_start = "never_connected"
        /\ call[s].ret = "False"
        /\ \E t \in Sessions \ {s} :
              history[t] = "connected" /\ ControlPath(t) \in sockets

\* How a block stands against the calls made for it.
ScopeCounts ==
    \A s \in Sessions :
        /\ scope[s] \in {"entering", "body"} =>
              enter_connects[s] = 1 /\ exit_quits[s] = 0
        /\ scope[s] \in {"left", "raised"} =>
              enter_connects[s] = 1 /\ exit_quits[s] = 1
        /\ scope[s] = "entering" => call[s].op = "connect"
        /\ scope[s] = "failed" =>
              enter_connects[s] = 1 /\ exit_quits[s] = 0

\* What a step does to a block: it is entered by a connect() call, it is
\* left only by a quit() call that has returned, on both exit paths, and no
\* call is made for a block that has been left.
ScopeSteps ==
    \A s \in Sessions :
        /\ (scope[s] \in Outside /\ scope'[s] \in {"entering", "body"})
              => call'[s].op = "connect" /\ enter_connects'[s] = 1
        /\ scope[s] = "body" =>
              /\ scope'[s] \in {"body", "left", "raised"}
              /\ scope'[s] # "body" =>
                    /\ call'[s].op = "quit"
                    /\ call'[s].ret \in {"True", "False"}
                    /\ exit_quits'[s] = exit_quits[s] + 1
        /\ scope[s] \in {"left", "raised"} =>
              \/ scope'[s] = scope[s] /\ exit_quits'[s] = exit_quits[s]
              \/ scope'[s] \in {"out", "entering", "body"}

\* C7 (scoped use): entering a Session block calls connect() exactly once,
\* and every exit path of the body, its normal end or an exception leaving
\* it, calls quit() exactly once, after the calls of the body; a block is
\* never left without quit() having been called.
ScopedUse == []ScopeCounts /\ [][ScopeSteps]_vars

\* A block whose body ran a cmd() that raised has been left by the
\* exception, after one quit().
ScopedUseWitness ==
    \E s \in Sessions :
        /\ scope[s] = "raised"
        /\ enter_connects[s] = 1
        /\ exit_quits[s] = 1
        /\ call[s].op = "quit"

\* C8 as stated (connection lifecycle): _connection is present exactly
\* when some connect() of the session has succeeded and no quit() has been
\* called on it since.
ConnectionLifecycle ==
    \A s \in Sessions :
        pc[s] = "idle" =>
            (_connection[s] # NoConnection <=> history[s] = "connected")

\* What a step does to _connection: it changes only when connect() has
\* waited for a master it spawned and that master has exited with status
\* zero, and then it becomes that master's handle.
ConnectionSteps ==
    \A s \in Sessions :
        /\ _connection'[s] # _connection[s] =>
              /\ pc[s] = "wait"
              /\ call'[s].returncode = 0
              /\ _connection'[s] = round[s]
        /\ (pc[s] = "wait" /\ call'[s].returncode = 0) =>
              _connection'[s] # NoConnection
        /\ (call'[s].op = "quit" /\ call'[s] # call[s]) =>
              _connection'[s] = _connection[s]

\* C8, amended: _connection is absent at construction and becomes present
\* when a master process spawned by a connect() of that session exits with
\* status zero, whatever the second probe then says; a connect() that finds
\* the socket alive or whose master fails leaves it as it was, and quit()
\* does not reset it: once present it stays present.
ConnectionRetained ==
    /\ \A s \in Sessions : _connection[s] = NoConnection
    /\ [][ConnectionSteps]_vars

\* A session has connected and quit() has returned True: its socket is
\* gone and _connection still holds the handle.
ConnectionRetainedWitness ==
    \E s \in Sessions :
        /\ Ended(s, "quit")
        /\ call[s].ret = "True"
        /\ call[s].history_at_start = "connected"
        /\ _connection[s] # NoConnection

\* C9 (failed bootstrap): when the first probe finds no live socket and the
\* master exits with a non-zero status, connect() returns False without
\* raising and without a second probe, and _connection is what it was
\* before the call.
FailedBootstrap ==
    \A s \in Sessions :
        (call[s].op = "connect" /\ call[s].returncode \notin {-1, 0})
        => /\ pc[s] = "idle"
           /\ call[s].ret = "False"
           /\ call[s].probes = 1
           /\ call[s].last_probe = "dead"
           /\ call[s].spawned = 1
           /\ _connection[s] = call[s].conn_before

\* A connect() of a session with no connection has seen its master fail.
FailedBootstrapWitness ==
    \E s \in Sessions :
        /\ Ended(s, "connect")
        /\ call[s].returncode = SSH_ERROR_STATUS
        /\ call[s].ret = "False"
        /\ _connection[s] = NoConnection

\* C10 (the last probe decides): with the client binary present, connect()
\* returns True exactly when the last probe made in the call found the
\* socket alive; when the master exits with status zero and the second
\* probe fails, connect() returns False and _connection holds the handle.
LastProbeDecides ==
    \A s \in Sessions :
        (Ended(s, "connect") /\ SSH_CLIENT_BINARY # None)
        => /\ call[s].ret = "True" <=> call[s].last_probe = "alive"
           /\ (call[s].returncode = 0 /\ call[s].last_probe = "dead") =>
                 /\ call[s].ret = "False"
                 /\ _connection[s] = round[s]
                 /\ _connection[s] # NoConnection

\* A master has exited with status zero, the second probe has failed, and
\* connect() has returned False with the handle kept.
LastProbeWitness ==
    \E s \in Sessions :
        /\ Ended(s, "connect")
        /\ call[s].returncode = 0
        /\ call[s].probes = 2
        /\ call[s].last_probe = "dead"
        /\ call[s].ret = "False"
        /\ _connection[s] # NoConnection

\* The command line carries this argument.
Has(argv, token) == \E i \in 1..Len(argv) : argv[i] = token

\* The command line carries an option of this name, whatever its value.
Names(argv, name) ==
    \E i \in 1..Len(argv) : argv[i].flag = "-o" /\ argv[i].name = name

\* The command line carries this flag, whatever its value.
HasFlag(argv, flag) == \E i \in 1..Len(argv) : argv[i].flag = flag

\* C11 (authentication options): the master command line carries
\* PubkeyAuthentication=yes exactly when a key was given (and =no otherwise),
\* PasswordAuthentication=yes and NumberOfPasswordPrompts=1 exactly when a
\* password was given (PasswordAuthentication=no otherwise), and always
\* ControlMaster=yes and ControlPersist=yes; the command lines of cmd() and
\* of the control commands name neither ControlMaster nor ControlPersist.
MasterOptions ==
    LET s == command_line.session
        argv == command_line.argv
    IN  /\ command_line.kind = "master" =>
            /\ Has(argv, DashO("PubkeyAuthentication", "yes")) <=> key[s] # None
            /\ Has(argv, DashO("PubkeyAuthentication", "no")) <=> key[s] = None
            /\ Has(argv, DashO("PasswordAuthentication", "yes"))
                   <=> password[s] # None
            /\ Has(argv, DashO("PasswordAuthentication", "no"))
                   <=> password[s] = None
            /\ Has(argv, DashO("NumberOfPasswordPrompts", "1"))
                   <=> password[s] # None
            /\ Names(argv, "NumberOfPasswordPrompts") => password[s] # None
            /\ Has(argv, DashO("ControlMaster", "yes"))
            /\ Has(argv, DashO("ControlPersist", "yes"))
        /\ command_line.kind \in {"control", "cmd"} =>
            /\ ~Names(argv, "ControlMaster")
            /\ ~Names(argv, "ControlPersist")

\* A master is started for a session with a key and no password.
MasterOptionsWitness ==
    /\ command_line.kind = "master"
    /\ key[command_line.session] # None
    /\ password[command_line.session] = None
    /\ call[command_line.session].spawned = 1

\* C16 (login, identity and port flags): every command line a session
\* builds carries `-l user` exactly when user is set, `-i key` exactly when
\* key is set and `-p port` exactly when port is set.
LoginFlags ==
    LET s == command_line.session
        argv == command_line.argv
    IN  command_line.kind # "none" =>
            /\ IF user[s] # None THEN Has(argv, Flag("-l", user[s]))
               ELSE ~HasFlag(argv, "-l")
            /\ IF key[s] # None THEN Has(argv, Flag("-i", key[s]))
               ELSE ~HasFlag(argv, "-i")
            /\ IF port[s] # None THEN Has(argv, Flag("-p", port[s]))
               ELSE ~HasFlag(argv, "-p")

\* C12 (no automatic retries): a connect() call spawns at most one master
\* process and probes the control socket at most twice, whatever the
\* subprocesses answer; a cmd() call that has ended ran the process runner
\* exactly once; a quit() call that has ended ran exactly one control
\* command.
NoRetries ==
    \A s \in Sessions :
        /\ call[s].op = "connect" =>
            /\ call[s].spawned <= 1
            /\ call[s].probes <= 2
            /\ call[s].runs = call[s].probes
        /\ Ended(s, "cmd") => call[s].runs = 1 /\ call[s].spawned = 0
        /\ Ended(s, "quit") => call[s].runs = 1 /\ call[s].spawned = 0

\* A connect() whose master failed has returned False after one probe and
\* one master.
NoRetriesWitness ==
    \E s \in Sessions :
        /\ Ended(s, "connect")
        /\ call[s].returncode = SSH_ERROR_STATUS
        /\ call[s].ret = "False"
        /\ call[s].spawned = 1
        /\ call[s].probes = 1

\* A master process is started in this step by session s.
Spawns(s) == call'[s].spawned > call[s].spawned

\* A connect() of an instance that never connected, begun while the control
\* socket of its endpoint was alive and not lost since, has ended.
JoinedLiveSocket(s) ==
    /\ Ended(s, "connect")
    /\ call[s].history_at_start = "never_connected"
    /\ call[s].alive_at_start
    /\ ~call[s].lost

SharedEndpointStates ==
    /\ \A cp \in DOMAIN masters : masters[cp] <= 1
    /\ \A s \in Sessions :
           JoinedLiveSocket(s) =>
               call[s].ret = "True" /\ call[s].spawned = 0

SharedEndpointSteps ==
    \A s \in Sessions : Spawns(s) => ControlPath(s) \notin sockets

\* C13 (shared endpoint, whole calls): when calls run one after another, no
\* connect() starts a master process while the control socket of its
\* endpoint is alive, so no control path ever has more than one master
\* behind it; and a connect() of a second instance begun while the socket
\* is alive (and staying alive) returns True without starting a master.
SharedEndpoint == []SharedEndpointStates /\ [][SharedEndpointSteps]_vars

\* The second instance for an endpoint has joined the first one's master.
SharedEndpointWitness ==
    \E s, t \in Sessions :
        /\ s # t
        /\ <<user[s], host[s], port[s]>> = <<user[t], host[t], port[t]>>
        /\ history[t] = "connected"
        /\ JoinedLiveSocket(s)
        /\ call[s].ret = "True"
        /\ call[s].spawned = 0
        /\ masters[ControlPath(s)] = 1

\* The endpoint a session was constructed for.
Endpoint(s) == <<user[s], host[s], port[s]>>

\* A step of a call of session s.
StepOf(s) ==
    \/ connect(s) \/ connect_check(s)
    \/ askpass_mkstemp(s) \/ askpass_write(s) \/ askpass_fchmod(s)
    \/ connect_popen(s) \/ connect_popen_raises(s)
    \/ connect_wait(s) \/ connect_recheck(s)
    \/ cmd(s) \/ quit(s)
    \/ __enter__(s) \/ \E raising \in BOOLEAN : __exit__(s, raising)

\* The control socket of t's endpoint, the master behind it or t's
\* _connection is not after this step what it was before.
Touched(t) ==
    \/ (ControlPath(t) \in sockets') # (ControlPath(t) \in sockets)
    \/ masters'[ControlPath(t)] # masters[ControlPath(t)]
    \/ _connection'[t] # _connection[t]

DistinctEndpointsSteps ==
    \A t \in Sessions :
        Touched(t) =>
            \A s \in Sessions \ {t} :
                Endpoint(s) # Endpoint(t) => ~StepOf(s)

\* C14 (distinct endpoints): for two instances whose (user, host, port)
\* differ, every step of a connect(), cmd() or quit() of one of them leaves
\* the control socket of the other's endpoint alive or dead as it was, and
\* the other's _connection unchanged.
DistinctEndpoints == [][DistinctEndpointsSteps]_vars

\* One instance has closed its master while the other's, on another
\* endpoint, is still up.
DistinctEndpointsWitness ==
    \E s, t \in Sessions :
        /\ s # t
        /\ Endpoint(s) # Endpoint(t)
        /\ Ended(s, "quit")
        /\ call[s].ret = "True"
        /\ ControlPath(t) \in sockets
        /\ _connection[t] # NoConnection

\* The askpass file is inside _create_ssh_askpass() of some session.
InCreation(f) ==
    \E s \in Sessions :
        pc[s] \in {"write", "fchmod"} /\ AskpassPath(s) = f.path

\* C15 (askpass permissions): an askpass file that holds the password
\* never grants any access to group or others, and once
\* _create_ssh_askpass() has returned its mode is within owner
\* read+execute for as long as the file exists.
AskpassPermissions ==
    \A f \in askpass_files :
        /\ f.content # "" =>
               Permissions(f.mode) \subseteq {"S_IRUSR", "S_IWUSR", "S_IXUSR"}
        /\ ~InCreation(f) =>
               /\ f.content # ""
               /\ Permissions(f.mode) \subseteq {"S_IRUSR", "S_IXUSR"}

\* The password is in the file and os.fchmod has not run yet.
AskpassPermissionsWitness ==
    \E s \in Sessions :
        /\ pc[s] = "fchmod"
        /\ AskpassFile(s).content = password[s]
        /\ AskpassFile(s).content # ""
        /\ AskpassFile(s).mode = MKSTEMP_MODE

\* After this step the record of s shows no probe and no master started, the
\* subprocess started last is a remote command, and the connection, the
\* sockets, the masters and every session's construction values are as
\* they were.
Passive(s) ==
    /\ call'[s].spawned = 0
    /\ call'[s].probes = 0
    /\ command_line'.kind = "cmd"
    /\ UNCHANGED <<identity, _connection, sockets, masters>>

\* No step that is not passive is a step of cmd().
CmdPassiveSteps ==
    \A s \in Sessions : (call'[s].op = "cmd" /\ ~Passive(s)) => ~cmd(s)

CmdNotRejected ==
    \A s \in Sessions :
        (pc[s] = "idle" /\ Turn(s) /\ CanCall(s)) => ENABLED cmd(s)

\* C17 (cmd() is passive): a cmd() call, whatever it returns or raises,
\* starts no master process and no probe (the one subprocess it starts is
\* the remote command), and leaves _connection, the control sockets, the
\* masters and the session's host, port, user, key and password as they
\* were; cmd() can be called whether or not _connection is set.
CmdPassive == []CmdNotRejected /\ [][CmdPassiveSteps]_vars

\* cmd() has raised SessionError on a session with a connection and a live
\* socket.
CmdPassiveWitness ==
    \E s \in Sessions :
        /\ Ended(s, "cmd")
        /\ call[s].ret = "SessionError"
        /\ _connection[s] # NoConnection
        /\ ControlPath(s) \in sockets

\* The last call of session s was a quit() that returned True, made after a
\* connect() of s had returned True.
TornDown(s) ==
    /\ Ended(s, "quit")
    /\ call[s].ret = "True"
    /\ call[s].history_at_start = "connected"

\* A connect() of s, begun after a quit() with the control socket dead, has
\* returned.
Reconnected(s) ==
    /\ Ended(s, "connect")
    /\ call[s].history_at_start = "quit"
    /\ ~call[s].alive_at_start
    /\ call[s].ret \in {"True", "False"}

ReconnectStates ==
    \A s \in Sessions :
        /\ TornDown(s) => ControlPath(s) \notin sockets
        /\ Reconnected(s) =>
            /\ call[s].spawned = 1
            /\ (call[s].returncode = 0 /\ call[s].last_probe = "alive")
                   => call[s].ret = "True"

ReconnectSteps ==
    \A s \in Sessions :
        TornDown(s) =>
            /\ quit(s) => call'[s].ret = "False"
            /\ connect(s) =>
                /\ call'[s].history_at_start = "quit"
                /\ ~call'[s].alive_at_start
                /\ call'[s].ret = "pending"

\* C18 (reconnect after teardown): after a connect() that returned True
\* and a quit() that returned True the control socket is dead, a second
\* quit() returns False, and the next connect() goes on to its probe with
\* the socket dead; a connect() begun so that returns has started exactly
\* one master process, and has returned True when that master exited with
\* status zero and the socket answered the last probe.
Reconnect == []ReconnectStates /\ [][ReconnectSteps]_vars

\* A session has connected again, with a new master, after its quit().
ReconnectWitness ==
    \E s \in Sessions :
        /\ Reconnected(s)
        /\ call[s].ret = "True"
        /\ call[s].spawned = 1
        /\ call[s].conn_before # NoConnection
        /\ _connection[s] # call[s].conn_before
        /\ ControlPath(s) \in sockets

\* The connect() calls of s and t, two instances for one endpoint, overlap,
\* and the control socket has not been lost or closed under either.
ConcurrentConnects(s, t) ==
    /\ s # t
    /\ ControlPath(s) = ControlPath(t)
    /\ call[s].op = "connect"
    /\ call[t].op = "connect"
    /\ ~call[s].lost
    /\ ~call[t].lost

\* C19 (shared endpoint, interleaved steps): when the connect() calls of
\* two instances for one endpoint overlap and their steps interleave, at
\* most one of the two calls starts a master process.
SingleMasterInterleaved ==
    \A s, t \in Sessions :
        ConcurrentConnects(s, t) =>
            call[s].spawned + call[t].spawned <= 1

====
